---- MODULE Spec2Model ----
(***************************************************************************)
(* Connection-level flow control filter of proxygen                        *)
(* (proxygen/lib/http/codec/FlowControlFilter.cpp).                        *)
(*                                                                         *)
(* The filter owns two flow-control windows (receive and send), the ack    *)
(* accumulator toAck_, and the flags error_ and sendsBlocked_.  Every      *)
(* public method is one action.  The calls a method makes on its           *)
(* collaborators (wrapped codec, data-delivery callback, error channel,    *)
(* notification callback) are recorded, in call order, in `out`, which is  *)
(* reset at every step; `last` names the method that ran and its           *)
(* arguments, `ret` its return value.  A failed CHECK stops the process:   *)
(* `aborted` becomes TRUE and no method runs afterwards.                   *)
(*                                                                         *)
(* The Window class is not part of FlowControlFilter.cpp; its operations   *)
(* follow section 4.1 of the specification.  Integers are scaled from 32   *)
(* to IntBits bits; uint32_t/int32_t conversions wrap modulo 2^IntBits.    *)
(***************************************************************************)
EXTENDS Integers, Sequences, FiniteSets, TLC

\* ---------------------------------------------------------------- bounds
IntBits == 4            \* width of uint32_t / int32_t in the model
kInitialWindow == 3     \* spdy::kInitialWindow, scaled with IntBits
MaxStream == 1          \* stream ids: 0 (connection) and MaxStream (a stream)
MaxResult == 1          \* the wrapped codec reports 0 .. MaxResult bytes written

MaxUint32 == 2^IntBits - 1
MaxInt32 == 2^(IntBits - 1) - 1
MinInt32 == -(2^(IntBits - 1))

Uint32 == 0..MaxUint32

\* inputs: the small values, the boundary values and the wrapping values of
\* each uint32_t argument
Lengths == {0, 1, kInitialWindow, kInitialWindow + 1, MaxUint32}
Amounts == {0, 1, kInitialWindow, MaxInt32, MaxUint32}
Deltas == {0, 1, kInitialWindow \div 2 + 1, MaxUint32}
Capacities == {0, kInitialWindow, kInitialWindow + 1, kInitialWindow + 2,
               MaxInt32 + 1 + kInitialWindow, MaxUint32}

\* the inputs of the side of the connection a specification keeps quiet:
\* the value that leaves the window alone and the one the window rejects
QuietLengths == {0, MaxUint32}
QuietAmounts == {0, MaxUint32}
QuietDeltas == {0}
QuietCapacities == {0, kInitialWindow + 1}
StreamIDs == {0, MaxStream}
CodecResults == 0..MaxResult

\* conversion of an integer to uint32_t (wraps modulo 2^IntBits)
ToUint32(x) == x % (2^IntBits)

\* conversion of an integer to int32_t (two's complement wrap)
ToInt32(x) == LET m == x % (2^IntBits) IN IF m > MaxInt32 THEN m - 2^IntBits ELSE m

\* int32_t += int32_t: the sum when it is representable; signed overflow is
\* undefined behaviour, any int32_t value can result
AddInt32(a, b) ==
  IF a + b \in MinInt32..MaxInt32 THEN {a + b} ELSE MinInt32..MaxInt32

\* ------------------------------------------------------ FlowControlWindow
\* Window(capacity): capacity and available credit both start at capacity
Window(c) == [capacity |-> c, available |-> c]

\* reserve(n): succeeds, and consumes n, iff n <= available
Window_reserve(w, n) ==
  IF n <= w.available
    THEN [ok |-> TRUE, w |-> [w EXCEPT !.available = w.available - n]]
    ELSE [ok |-> FALSE, w |-> w]

\* free(n): available += n; fails if the sum leaves the signed range
Window_free(w, n) ==
  IF w.available + n > MaxInt32
    THEN [ok |-> FALSE, w |-> w]
    ELSE [ok |-> TRUE, w |-> [w EXCEPT !.available = w.available + n]]

\* setCapacity(c): fails on shrink; otherwise capacity = c, available += delta
Window_setCapacity(w, c) ==
  IF c < w.capacity
    THEN [ok |-> FALSE, w |-> w]
    ELSE [ok |-> TRUE,
          w |-> [capacity |-> c, available |-> w.available + (c - w.capacity)]]

\* getNonNegativeSize(): max(available, 0)
Window_getNonNegativeSize(w) == IF w.available > 0 THEN w.available ELSE 0

\* getCapacity()
Window_getCapacity(w) == w.capacity

\* ----------------------------------------------------------------- state
VARIABLES
  recvWindow_,    \* Window: connection-level receive window
  sendWindow_,    \* Window: connection-level send window
  toAck_,         \* int32_t: consumed bytes not yet acknowledged to the peer
  error_,         \* bool: a flow-control violation was raised
  sendsBlocked_,  \* bool: send window was seen at zero, no notification since
  aborted,        \* a CHECK failed: the process has stopped
  last,           \* the method that ran in the last step, with its arguments
  out,            \* calls made on the collaborators in the last step, in order
  ret,            \* return value of the last step
  drained         \* history: a generateBody left the send window at zero
                  \* credit since the last onConnectionSendWindowOpen

vars == <<recvWindow_, sendWindow_, toAck_, error_, sendsBlocked_, aborted,
          last, out, ret, drained>>

\* ------------------------------------------------ collaborators' calls
NoEx == [direction |-> "none", code |-> "none"]

\* getException(): bidirectional HTTPException tagged FLOW_CONTROL_ERROR
getException == [direction |-> "INGRESS_AND_EGRESS", code |-> "FLOW_CONTROL_ERROR"]

\* one call on a collaborator: channel, arguments, and the value it returned
Ev(ch, stream, n, b, ex, res) ==
  [ch |-> ch, stream |-> stream, n |-> n, b |-> b, ex |-> ex, res |-> res]

\* callback_->onError(stream, ex, newTxn)
CbOnError(stream, ex) == Ev("callback.onError", stream, 0, FALSE, ex, 0)
\* callback_->onBody(stream, chain)
CbOnBody(stream, len) == Ev("callback.onBody", stream, len, FALSE, NoEx, 0)
\* callback_->onWindowUpdate(stream, amount)
CbOnWindowUpdate(stream, amount) ==
  Ev("callback.onWindowUpdate", stream, amount, FALSE, NoEx, 0)
\* notify_.onConnectionSendWindowOpen()
NotifySendWindowOpen == Ev("notify.onConnectionSendWindowOpen", 0, 0, FALSE, NoEx, 0)
\* call_->generateWindowUpdate(writeBuf, stream, delta)
CodecWindowUpdate(stream, delta, res) ==
  Ev("codec.generateWindowUpdate", stream, delta, FALSE, NoEx, res)
\* call_->generateBody(writeBuf, stream, chain, eom)
CodecBody(stream, len, eom, res) ==
  Ev("codec.generateBody", stream, len, eom, NoEx, res)
\* call_->isReusable()
CodecIsReusable(r) == Ev("codec.isReusable", 0, 0, r, NoEx, 0)

Call(op, stream, n, b) == [op |-> op, stream |-> stream, n |-> n, b |-> b]

RetNone == [kind |-> "none", b |-> FALSE, n |-> 0]
RetBool(b) == [kind |-> "bool", b |-> b, n |-> 0]
RetSize(n) == [kind |-> "size", b |-> FALSE, n |-> n]

\* number of calls on channel ch in the call sequence o
Count(o, ch) == Cardinality({i \in 1..Len(o) : o[i].ch = ch})

\* getAvailableSend()
getAvailableSend == Window_getNonNegativeSize(sendWindow_)

\* variant: the unblock condition without the test of the window's credit
SendWindowOpens_blockedOnly(blocked, w) == blocked

\* the unblock condition of onWindowUpdate, on the send window after the free
SendWindowOpens(blocked, w) == blocked /\ Window_getNonNegativeSize(w) # 0

\* ----------------------------------------------------------- constructor
\* variant: the constructor announces the larger window without resizing it
Init_noSetCapacity ==
  \E recvCapacity \in Capacities :
    /\ sendWindow_ = Window(kInitialWindow)
    /\ recvWindow_ = Window(kInitialWindow)
    /\ toAck_ = 0
    /\ error_ = FALSE
    /\ sendsBlocked_ = FALSE
    /\ aborted = FALSE
    /\ drained = FALSE
    /\ ret = RetNone
    /\ last = Call("FlowControlFilter", 0, recvCapacity, FALSE)
    /\ out = IF recvCapacity > kInitialWindow
               THEN <<CodecWindowUpdate(0, recvCapacity - kInitialWindow, 0)>>
               ELSE <<>>

Init ==
  \E recvCapacity \in Capacities :
    /\ sendWindow_ = Window(kInitialWindow)
    /\ toAck_ = 0
    /\ error_ = FALSE
    /\ sendsBlocked_ = FALSE
    /\ aborted = FALSE
    /\ drained = FALSE
    /\ ret = RetNone
    /\ last = Call("FlowControlFilter", 0, recvCapacity, FALSE)
    /\ IF recvCapacity < kInitialWindow
         THEN /\ recvWindow_ = Window(kInitialWindow)
              /\ out = <<>>
         ELSE IF recvCapacity > kInitialWindow
           THEN /\ recvWindow_ = Window_setCapacity(Window(kInitialWindow), recvCapacity).w
                /\ out = <<CodecWindowUpdate(0, recvCapacity - kInitialWindow, 0)>>
           ELSE /\ recvWindow_ = Window(kInitialWindow)
                /\ out = <<>>

\* ------------------------------------------------------------- methods
\* variant: toAck_ is increased before the shrink test
setReceiveWindowSize_accumulatesFirst(capacity) ==
  /\ ~aborted
  /\ last' = Call("setReceiveWindowSize", 0, capacity, FALSE)
  /\ ret' = RetNone
  /\ UNCHANGED <<sendWindow_, error_, sendsBlocked_, aborted, drained>>
  /\ IF capacity < kInitialWindow
       THEN /\ out' = <<>>
            /\ UNCHANGED <<recvWindow_, toAck_>>
       ELSE LET delta == ToInt32(capacity - Window_getCapacity(recvWindow_))
                r == Window_setCapacity(recvWindow_, capacity)
            IN IF delta < 0
                 THEN /\ out' = <<>>
                      /\ toAck_' \in AddInt32(toAck_, delta)
                      /\ UNCHANGED recvWindow_
                 ELSE IF ~r.ok
                   THEN /\ out' = <<>>
                        /\ UNCHANGED <<recvWindow_, toAck_>>
                   ELSE /\ recvWindow_' = r.w
                        /\ \E acc \in AddInt32(toAck_, delta) :
                           IF acc > 0
                             THEN /\ out' = <<CodecWindowUpdate(0, ToUint32(delta), 0)>>
                                  /\ toAck_' = 0
                             ELSE /\ out' = <<>>
                                  /\ toAck_' = acc

\* variant: toAck_ is not reset after the window-update
setReceiveWindowSize_noReset(capacity) ==
  /\ ~aborted
  /\ last' = Call("setReceiveWindowSize", 0, capacity, FALSE)
  /\ ret' = RetNone
  /\ UNCHANGED <<sendWindow_, error_, sendsBlocked_, aborted, drained>>
  /\ IF capacity < kInitialWindow
       THEN /\ out' = <<>>
            /\ UNCHANGED <<recvWindow_, toAck_>>
       ELSE LET delta == ToInt32(capacity - Window_getCapacity(recvWindow_))
                r == Window_setCapacity(recvWindow_, capacity)
            IN IF delta < 0
                 THEN /\ out' = <<>>
                      /\ UNCHANGED <<recvWindow_, toAck_>>
                 ELSE IF ~r.ok
                   THEN /\ out' = <<>>
                        /\ UNCHANGED <<recvWindow_, toAck_>>
                   ELSE /\ recvWindow_' = r.w
                        /\ \E acc \in AddInt32(toAck_, delta) :
                           IF acc > 0
                             THEN /\ out' = <<CodecWindowUpdate(0, ToUint32(delta), 0)>>
                                  /\ toAck_' = acc
                             ELSE /\ out' = <<>>
                                  /\ toAck_' = acc

\* variant: the new credit is also freed into the window
setReceiveWindowSize_doubleCredit(capacity) ==
  /\ ~aborted
  /\ last' = Call("setReceiveWindowSize", 0, capacity, FALSE)
  /\ ret' = RetNone
  /\ UNCHANGED <<sendWindow_, error_, sendsBlocked_, aborted, drained>>
  /\ IF capacity < kInitialWindow
       THEN /\ out' = <<>>
            /\ UNCHANGED <<recvWindow_, toAck_>>
       ELSE LET delta == ToInt32(capacity - Window_getCapacity(recvWindow_))
                r == Window_setCapacity(recvWindow_, capacity)
            IN IF delta < 0
                 THEN /\ out' = <<>>
                      /\ UNCHANGED <<recvWindow_, toAck_>>
                 ELSE IF ~r.ok
                   THEN /\ out' = <<>>
                        /\ UNCHANGED <<recvWindow_, toAck_>>
                   ELSE /\ recvWindow_' = [r.w EXCEPT !.available = @ + delta]
                        /\ \E acc \in AddInt32(toAck_, delta) :
                           IF acc > 0
                             THEN /\ out' = <<CodecWindowUpdate(0, ToUint32(delta), 0)>>
                                  /\ toAck_' = 0
                             ELSE /\ out' = <<>>
                                  /\ toAck_' = acc

setReceiveWindowSize(capacity) ==
  /\ ~aborted
  /\ last' = Call("setReceiveWindowSize", 0, capacity, FALSE)
  /\ ret' = RetNone
  /\ UNCHANGED <<sendWindow_, error_, sendsBlocked_, aborted, drained>>
  /\ IF capacity < kInitialWindow
       THEN /\ out' = <<>>
            /\ UNCHANGED <<recvWindow_, toAck_>>
       ELSE LET delta == ToInt32(capacity - Window_getCapacity(recvWindow_))
                r == Window_setCapacity(recvWindow_, capacity)
            IN IF delta < 0
                 THEN /\ out' = <<>>
                      /\ UNCHANGED <<recvWindow_, toAck_>>
                 ELSE IF ~r.ok
                   THEN /\ out' = <<>>
                        /\ UNCHANGED <<recvWindow_, toAck_>>
                   ELSE /\ recvWindow_' = r.w
                        /\ \E acc \in AddInt32(toAck_, delta) :
                           IF acc > 0
                             THEN /\ out' = <<CodecWindowUpdate(0, ToUint32(delta), 0)>>
                                  /\ toAck_' = 0
                             ELSE /\ out' = <<>>
                                  /\ toAck_' = acc

\* variant: the flush already happens at half the capacity
ingressBytesProcessed_atHalf(delta) ==
  /\ ~aborted
  /\ last' = Call("ingressBytesProcessed", 0, delta, FALSE)
  /\ UNCHANGED <<sendWindow_, error_, sendsBlocked_, drained>>
  /\ LET acc == ToInt32(toAck_ + delta)
         r == Window_free(recvWindow_, acc)
     IN IF acc > 0 /\ ToUint32(acc) >= Window_getCapacity(recvWindow_) \div 2
          THEN IF r.ok
                 THEN /\ recvWindow_' = r.w
                      /\ out' = <<CodecWindowUpdate(0, ToUint32(acc), 0)>>
                      /\ toAck_' = 0
                      /\ ret' = RetBool(TRUE)
                      /\ UNCHANGED aborted
                 ELSE /\ aborted' = TRUE
                      /\ toAck_' = acc
                      /\ out' = <<>>
                      /\ ret' = RetNone
                      /\ UNCHANGED recvWindow_
          ELSE /\ toAck_' = acc
               /\ out' = <<>>
               /\ ret' = RetBool(FALSE)
               /\ UNCHANGED <<recvWindow_, aborted>>

ingressBytesProcessed(delta) ==
  /\ ~aborted
  /\ last' = Call("ingressBytesProcessed", 0, delta, FALSE)
  /\ UNCHANGED <<sendWindow_, error_, sendsBlocked_, drained>>
  /\ LET acc == ToInt32(toAck_ + delta)
         r == Window_free(recvWindow_, acc)
     IN IF acc > 0 /\ ToUint32(acc) > Window_getCapacity(recvWindow_) \div 2
          THEN IF r.ok
                 THEN /\ recvWindow_' = r.w
                      /\ out' = <<CodecWindowUpdate(0, ToUint32(acc), 0)>>
                      /\ toAck_' = 0
                      /\ ret' = RetBool(TRUE)
                      /\ UNCHANGED aborted
                 ELSE /\ aborted' = TRUE
                      /\ toAck_' = acc
                      /\ out' = <<>>
                      /\ ret' = RetNone
                      /\ UNCHANGED recvWindow_
          ELSE /\ toAck_' = acc
               /\ out' = <<>>
               /\ ret' = RetBool(FALSE)
               /\ UNCHANGED <<recvWindow_, aborted>>

\* variant: isReusable always asks the wrapped codec
isReusable_ignoreError(codecAnswer) ==
  /\ ~aborted
  /\ last' = Call("isReusable", 0, 0, FALSE)
  /\ UNCHANGED <<recvWindow_, sendWindow_, toAck_, error_, sendsBlocked_,
                 aborted, drained>>
  /\ out' = <<CodecIsReusable(codecAnswer)>>
  /\ ret' = RetBool(codecAnswer)

isReusable(codecAnswer) ==
  /\ ~aborted
  /\ last' = Call("isReusable", 0, 0, FALSE)
  /\ UNCHANGED <<recvWindow_, sendWindow_, toAck_, error_, sendsBlocked_,
                 aborted, drained>>
  /\ IF error_
       THEN /\ out' = <<>>
            /\ ret' = RetBool(FALSE)
       ELSE /\ out' = <<CodecIsReusable(codecAnswer)>>
            /\ ret' = RetBool(codecAnswer)

\* variant: onBody raises the error and still delivers the data
onBody_missingElse(stream, len) ==
  /\ ~aborted
  /\ last' = Call("onBody", stream, len, FALSE)
  /\ ret' = RetNone
  /\ UNCHANGED <<sendWindow_, toAck_, sendsBlocked_, aborted, drained>>
  /\ LET r == Window_reserve(recvWindow_, len)
     IN /\ recvWindow_' = r.w
        /\ IF ~r.ok
             THEN /\ error_' = TRUE
                  /\ out' = <<CbOnError(0, getException), CbOnBody(stream, len)>>
             ELSE /\ out' = <<CbOnBody(stream, len)>>
                  /\ UNCHANGED error_

onBody(stream, len) ==
  /\ ~aborted
  /\ last' = Call("onBody", stream, len, FALSE)
  /\ ret' = RetNone
  /\ UNCHANGED <<sendWindow_, toAck_, sendsBlocked_, aborted, drained>>
  /\ LET r == Window_reserve(recvWindow_, len)
     IN /\ recvWindow_' = r.w
        /\ IF ~r.ok
             THEN /\ error_' = TRUE
                  /\ out' = <<CbOnError(0, getException)>>
             ELSE /\ out' = <<CbOnBody(stream, len)>>
                  /\ UNCHANGED error_

\* variant: the notification fires but sendsBlocked_ is not cleared
onWindowUpdate_staysBlocked(stream, amount) ==
  /\ ~aborted
  /\ last' = Call("onWindowUpdate", stream, amount, FALSE)
  /\ ret' = RetNone
  /\ UNCHANGED <<recvWindow_, toAck_, aborted>>
  /\ IF stream = 0
       THEN LET r == Window_free(sendWindow_, amount)
                errs == IF r.ok THEN <<>> ELSE <<CbOnError(stream, getException)>>
                open == SendWindowOpens(sendsBlocked_, r.w)
            IN /\ sendWindow_' = r.w
               /\ error_' = IF r.ok THEN error_ ELSE TRUE
               /\ sendsBlocked_' = sendsBlocked_
               /\ out' = IF open THEN Append(errs, NotifySendWindowOpen) ELSE errs
               /\ drained' = IF open THEN FALSE ELSE drained
       ELSE /\ out' = <<CbOnWindowUpdate(stream, amount)>>
            /\ UNCHANGED <<sendWindow_, error_, sendsBlocked_, drained>>

\* variant: a failed free raises the error without setting error_
onWindowUpdate_noErrorFlag(stream, amount) ==
  /\ ~aborted
  /\ last' = Call("onWindowUpdate", stream, amount, FALSE)
  /\ ret' = RetNone
  /\ UNCHANGED <<recvWindow_, toAck_, aborted, error_>>
  /\ IF stream = 0
       THEN LET r == Window_free(sendWindow_, amount)
                errs == IF r.ok THEN <<>> ELSE <<CbOnError(stream, getException)>>
                open == SendWindowOpens(sendsBlocked_, r.w)
            IN /\ sendWindow_' = r.w
               /\ sendsBlocked_' = IF open THEN FALSE ELSE sendsBlocked_
               /\ out' = IF open THEN Append(errs, NotifySendWindowOpen) ELSE errs
               /\ drained' = IF open THEN FALSE ELSE drained
       ELSE /\ out' = <<CbOnWindowUpdate(stream, amount)>>
            /\ UNCHANGED <<sendWindow_, sendsBlocked_, drained>>

\* variant: the connection-level update is applied and also forwarded
onWindowUpdate_forwardsAll(stream, amount) ==
  /\ ~aborted
  /\ last' = Call("onWindowUpdate", stream, amount, FALSE)
  /\ ret' = RetNone
  /\ UNCHANGED <<recvWindow_, toAck_, aborted>>
  /\ IF stream = 0
       THEN LET r == Window_free(sendWindow_, amount)
                errs == IF r.ok THEN <<>> ELSE <<CbOnError(stream, getException)>>
                open == SendWindowOpens(sendsBlocked_, r.w)
                sent == IF open THEN Append(errs, NotifySendWindowOpen) ELSE errs
            IN /\ sendWindow_' = r.w
               /\ error_' = IF r.ok THEN error_ ELSE TRUE
               /\ sendsBlocked_' = IF open THEN FALSE ELSE sendsBlocked_
               /\ out' = Append(sent, CbOnWindowUpdate(stream, amount))
               /\ drained' = IF open THEN FALSE ELSE drained
       ELSE /\ out' = <<CbOnWindowUpdate(stream, amount)>>
            /\ UNCHANGED <<sendWindow_, error_, sendsBlocked_, drained>>

onWindowUpdate(stream, amount) ==
  /\ ~aborted
  /\ last' = Call("onWindowUpdate", stream, amount, FALSE)
  /\ ret' = RetNone
  /\ UNCHANGED <<recvWindow_, toAck_, aborted>>
  /\ IF stream = 0
       THEN LET r == Window_free(sendWindow_, amount)
                errs == IF r.ok THEN <<>> ELSE <<CbOnError(stream, getException)>>
                open == SendWindowOpens(sendsBlocked_, r.w)
            IN /\ sendWindow_' = r.w
               /\ error_' = IF r.ok THEN error_ ELSE TRUE
               /\ sendsBlocked_' = IF open THEN FALSE ELSE sendsBlocked_
               /\ out' = IF open THEN Append(errs, NotifySendWindowOpen) ELSE errs
               /\ drained' = IF open THEN FALSE ELSE drained
       ELSE /\ out' = <<CbOnWindowUpdate(stream, amount)>>
            /\ UNCHANGED <<sendWindow_, error_, sendsBlocked_, drained>>

\* variant: the CHECK is a DCHECK, compiled out: a failed reserve is ignored
generateBody_dcheck(stream, len, eom, codecResult) ==
  /\ ~aborted
  /\ last' = Call("generateBody", stream, len, eom)
  /\ UNCHANGED <<recvWindow_, toAck_, error_, aborted>>
  /\ LET r == Window_reserve(sendWindow_, len)
     IN /\ sendWindow_' = r.w
        /\ sendsBlocked_' = IF Window_getNonNegativeSize(r.w) = 0
                               THEN TRUE ELSE sendsBlocked_
        /\ drained' = IF r.ok /\ r.w.available = 0 THEN TRUE ELSE drained
        /\ out' = <<CodecBody(stream, len, eom, codecResult)>>
        /\ ret' = RetSize(codecResult)

\* variant: sendsBlocked_ is set by every generateBody
generateBody_alwaysBlocked(stream, len, eom, codecResult) ==
  /\ ~aborted
  /\ last' = Call("generateBody", stream, len, eom)
  /\ UNCHANGED <<recvWindow_, toAck_, error_>>
  /\ LET r == Window_reserve(sendWindow_, len)
     IN /\ sendWindow_' = r.w
        /\ IF ~r.ok
             THEN /\ aborted' = TRUE
                  /\ out' = <<>>
                  /\ ret' = RetNone
                  /\ UNCHANGED <<sendsBlocked_, drained>>
             ELSE /\ sendsBlocked_' = TRUE
                  /\ drained' = IF r.w.available = 0 THEN TRUE ELSE drained
                  /\ out' = <<CodecBody(stream, len, eom, codecResult)>>
                  /\ ret' = RetSize(codecResult)
                  /\ UNCHANGED aborted

\* variant: sendsBlocked_ is not set when the window is used up
generateBody_neverBlocked(stream, len, eom, codecResult) ==
  /\ ~aborted
  /\ last' = Call("generateBody", stream, len, eom)
  /\ UNCHANGED <<recvWindow_, toAck_, error_>>
  /\ LET r == Window_reserve(sendWindow_, len)
     IN /\ sendWindow_' = r.w
        /\ IF ~r.ok
             THEN /\ aborted' = TRUE
                  /\ out' = <<>>
                  /\ ret' = RetNone
                  /\ UNCHANGED <<sendsBlocked_, drained>>
             ELSE /\ sendsBlocked_' = sendsBlocked_
                  /\ drained' = IF r.w.available = 0 THEN TRUE ELSE drained
                  /\ out' = <<CodecBody(stream, len, eom, codecResult)>>
                  /\ ret' = RetSize(codecResult)
                  /\ UNCHANGED aborted

generateBody(stream, len, eom, codecResult) ==
  /\ ~aborted
  /\ last' = Call("generateBody", stream, len, eom)
  /\ UNCHANGED <<recvWindow_, toAck_, error_>>
  /\ LET r == Window_reserve(sendWindow_, len)
     IN /\ sendWindow_' = r.w
        /\ IF ~r.ok
             THEN /\ aborted' = TRUE
                  /\ out' = <<>>
                  /\ ret' = RetNone
                  /\ UNCHANGED <<sendsBlocked_, drained>>
             ELSE /\ sendsBlocked_' = IF Window_getNonNegativeSize(r.w) = 0
                                        THEN TRUE ELSE sendsBlocked_
                  /\ drained' = IF r.w.available = 0 THEN TRUE ELSE drained
                  /\ out' = <<CodecBody(stream, len, eom, codecResult)>>
                  /\ ret' = RetSize(codecResult)
                  /\ UNCHANGED aborted

\* variant: generateWindowUpdate without the CHECK on the stream id
generateWindowUpdate_noCheck(stream, delta, codecResult) ==
  /\ ~aborted
  /\ last' = Call("generateWindowUpdate", stream, delta, FALSE)
  /\ UNCHANGED <<recvWindow_, sendWindow_, toAck_, error_, sendsBlocked_, drained,
                 aborted>>
  /\ out' = <<CodecWindowUpdate(stream, delta, codecResult)>>
  /\ ret' = RetSize(codecResult)

generateWindowUpdate(stream, delta, codecResult) ==
  /\ ~aborted
  /\ last' = Call("generateWindowUpdate", stream, delta, FALSE)
  /\ UNCHANGED <<recvWindow_, sendWindow_, toAck_, error_, sendsBlocked_, drained>>
  /\ IF stream = 0
       THEN /\ aborted' = TRUE
            /\ out' = <<>>
            /\ ret' = RetNone
       ELSE /\ out' = <<CodecWindowUpdate(stream, delta, codecResult)>>
            /\ ret' = RetSize(codecResult)
            /\ UNCHANGED aborted

\* the seven methods, with the arguments drawn from the given sets
Step(capacities, deltas, bodyIn, amounts, bodyOut) ==
  \/ \E capacity \in capacities : setReceiveWindowSize(capacity)
  \/ \E delta \in deltas : ingressBytesProcessed(delta)
  \/ \E codecAnswer \in BOOLEAN : isReusable(codecAnswer)
  \/ \E stream \in StreamIDs, len \in bodyIn : onBody(stream, len)
  \/ \E stream \in StreamIDs, amount \in amounts : onWindowUpdate(stream, amount)
  \/ \E stream \in StreamIDs, len \in bodyOut, eom \in BOOLEAN, res \in CodecResults :
       generateBody(stream, len, eom, res)
  \/ \E stream \in StreamIDs, delta \in QuietDeltas \cup {MaxUint32},
        res \in CodecResults : generateWindowUpdate(stream, delta, res)

\* every method with every input
Next == Step(Capacities, Deltas, Lengths, Amounts, Lengths)
Spec == Init /\ [][Next]_vars

\* egress side exercised, ingress side quiet
NextEgress == Step(QuietCapacities, QuietDeltas, QuietLengths, Amounts, Lengths)
SpecEgress == Init /\ [][NextEgress]_vars

\* ingress side exercised, egress side quiet
NextIngress == Step(Capacities, Deltas, Lengths, QuietAmounts, QuietLengths)
SpecIngress == Init /\ [][NextIngress]_vars

TypeOK ==
  /\ recvWindow_.capacity \in kInitialWindow..MaxUint32
  /\ recvWindow_.available \in 0..(MaxInt32 + MaxUint32)
  /\ sendWindow_.capacity = kInitialWindow
  /\ sendWindow_.available \in 0..MaxInt32
  /\ toAck_ \in MinInt32..MaxInt32
  /\ error_ \in BOOLEAN /\ sendsBlocked_ \in BOOLEAN /\ aborted \in BOOLEAN
  /\ Len(out) <= 2

\* ------------------------------------------------------------ properties
FlowControlError == [direction |-> "INGRESS_AND_EGRESS", code |-> "FLOW_CONTROL_ERROR"]

\* the calls on the error channel in the call sequence o that carry a
\* bidirectional flow-control error
FlowErrors(o) ==
  Cardinality({i \in 1..Len(o) : o[i].ch = "callback.onError" /\ o[i].ex = FlowControlError})

Fired(o) == Count(o, "notify.onConnectionSendWindowOpen")

\* C1: an onBody whose length exceeds the receive window's available credit
\* sets error_, raises exactly one bidirectional flow-control error, does not
\* call the data-delivery callback's onBody, and leaves the receive window's
\* available credit and capacity unchanged.
C1_OnBodyOverWindow ==
  [][(last'.op = "onBody" /\ last'.n > recvWindow_.available)
       => /\ error_'
          /\ Count(out', "callback.onError") = 1
          /\ FlowErrors(out') = 1
          /\ Count(out', "callback.onBody") = 0
          /\ recvWindow_' = recvWindow_]_vars

C1_Witness ==
  /\ last.op = "onBody"
  /\ last.n > recvWindow_.available
  /\ last.n <= MaxInt32
  /\ error_
  /\ FlowErrors(out) = 1

\* C2: error_ is never cleared once set; isReusable() returns false whenever
\* error_ is set, whatever the wrapped codec would answer, and returns exactly
\* the wrapped codec's answer while error_ is false.
C2_ErroredPermanent ==
  [][/\ error_ => error_'
     /\ last'.op = "isReusable"
          => IF error_'
               THEN ret' = RetBool(FALSE)
               ELSE /\ Count(out', "codec.isReusable") = 1
                    /\ Len(out') = 1
                    /\ ret' = RetBool(out'[1].b)]_vars

C2_Witness ==
  /\ last.op = "isReusable"
  /\ error_
  /\ ret = RetBool(FALSE)

\* C3: an onWindowUpdate(0, amount) whose free succeeds raises
\* getAvailableSend() by exactly amount; if sendsBlocked_ was set and the send
\* window then has credit, sendsBlocked_ is cleared and
\* onConnectionSendWindowOpen fires exactly once, otherwise it does not fire.
C3_WindowUpdateGrants ==
  [][(last'.op = "onWindowUpdate" /\ last'.stream = 0
        /\ Window_free(sendWindow_, last'.n).ok)
       => /\ Window_getNonNegativeSize(sendWindow_')
               = Window_getNonNegativeSize(sendWindow_) + last'.n
          /\ IF sendsBlocked_ /\ Window_getNonNegativeSize(sendWindow_') # 0
               THEN ~sendsBlocked_' /\ Fired(out') = 1
               ELSE Fired(out') = 0]_vars

C3_Witness ==
  /\ last.op = "onWindowUpdate"
  /\ last.stream = 0
  /\ last.n > 0
  /\ ~error_
  /\ ~sendsBlocked_
  /\ Fired(out) = 1
  /\ sendWindow_.available = last.n

\* C4: an onWindowUpdate(0, amount) whose free fails sets error_, raises
\* exactly one bidirectional flow-control error, leaves the send window's
\* credit and sendsBlocked_ unchanged and does not fire
\* onConnectionSendWindowOpen.
C4_WindowUpdateOverflow ==
  [][(last'.op = "onWindowUpdate" /\ last'.stream = 0
        /\ ~Window_free(sendWindow_, last'.n).ok)
       => /\ error_'
          /\ Count(out', "callback.onError") = 1
          /\ FlowErrors(out') = 1
          /\ sendWindow_'.available = sendWindow_.available
          /\ sendsBlocked_' = sendsBlocked_
          /\ Fired(out') = 0]_vars

C4_Witness ==
  /\ last.op = "onWindowUpdate"
  /\ last.stream = 0
  /\ sendWindow_.available + last.n > MaxInt32
  /\ sendsBlocked_
  /\ error_
  /\ FlowErrors(out) = 1

\* C5: an onWindowUpdate on stream 0 is never forwarded to the data-delivery
\* callback; one on a non-zero stream is forwarded exactly once with the same
\* stream id and amount and changes neither window, toAck_, sendsBlocked_ nor
\* error_.
C5_WindowUpdateRouting ==
  [][last'.op = "onWindowUpdate"
       => IF last'.stream = 0
            THEN Count(out', "callback.onWindowUpdate") = 0
            ELSE /\ out' = <<CbOnWindowUpdate(last'.stream, last'.n)>>
                 /\ UNCHANGED <<recvWindow_, sendWindow_, toAck_, sendsBlocked_,
                                error_>>]_vars

C5_Witness ==
  /\ last.op = "onWindowUpdate"
  /\ last.stream # 0
  /\ last.n > 0
  /\ sendsBlocked_
  /\ out = <<CbOnWindowUpdate(last.stream, last.n)>>

\* C6: onConnectionSendWindowOpen fires at most once per step, and fires in
\* exactly the steps that are an onWindowUpdate(0, amount) taking the send
\* window from zero to non-zero credit while sendsBlocked_ is set; every
\* firing is preceded, since the previous firing, by a generateBody that left
\* the send window at zero credit.
C6_SendWindowOpenExactly ==
  [][/\ Fired(out') <= 1
     /\ Fired(out') = 1
          <=> /\ last'.op = "onWindowUpdate"
              /\ last'.stream = 0
              /\ sendsBlocked_
              /\ Window_getNonNegativeSize(sendWindow_) = 0
              /\ Window_getNonNegativeSize(sendWindow_') # 0
     /\ Fired(out') = 1 => drained /\ ~drained']_vars

C6_Witness ==
  /\ Fired(out) = 1
  /\ last.op = "onWindowUpdate"
  /\ ~drained
  /\ sendWindow_.available > 0

\* C7: a generateBody whose length exceeds the send window's available credit
\* aborts: it returns nothing, raises no error, leaves error_ alone and does
\* not call the wrapped codec.
C7_GenerateBodyAborts ==
  [][(last'.op = "generateBody" /\ last'.n > Window_getNonNegativeSize(sendWindow_))
       => /\ aborted'
          /\ ret' = RetNone
          /\ out' = <<>>
          /\ error_' = error_]_vars

C7_Witness ==
  /\ last.op = "generateBody"
  /\ aborted
  /\ last.n > sendWindow_.available
  /\ last.n <= MaxInt32

\* C8: a generateBody whose length is at most the send window's available
\* credit lowers that credit by exactly the length, sets sendsBlocked_ if the
\* credit is then zero and leaves it unchanged otherwise, calls the wrapped
\* codec's generateBody exactly once with the same stream id, length and
\* end-of-stream flag, and returns the codec's result.
C8_GenerateBodyReserves ==
  [][(last'.op = "generateBody" /\ last'.n <= Window_getNonNegativeSize(sendWindow_))
       => /\ sendWindow_'.available = sendWindow_.available - last'.n
          /\ sendsBlocked_' = IF sendWindow_'.available = 0 THEN TRUE ELSE sendsBlocked_
          /\ Len(out') = 1
          /\ out'[1] = CodecBody(last'.stream, last'.n, last'.b, out'[1].res)
          /\ ret' = RetSize(out'[1].res)
          /\ ~aborted']_vars

C8_Witness ==
  /\ last.op = "generateBody"
  /\ last.n > 0
  /\ ~aborted
  /\ sendWindow_.available > 0
  /\ ~sendsBlocked_
  /\ ret = RetSize(MaxResult)

\* C9: generateWindowUpdate on stream 0 aborts and emits no frame; on a
\* non-zero stream it calls the wrapped codec's generateWindowUpdate exactly
\* once with the same stream id and delta and changes neither window, toAck_,
\* sendsBlocked_ nor error_.
C9_GenerateWindowUpdate ==
  [][last'.op = "generateWindowUpdate"
       => IF last'.stream = 0
            THEN aborted' /\ out' = <<>>
            ELSE /\ ~aborted'
                 /\ Len(out') = 1
                 /\ out'[1] = CodecWindowUpdate(last'.stream, last'.n, out'[1].res)
                 /\ UNCHANGED <<recvWindow_, sendWindow_, toAck_, sendsBlocked_,
                                error_>>]_vars

C9_Witness ==
  /\ last.op = "generateWindowUpdate"
  /\ last.stream = 0
  /\ aborted
  /\ out = <<>>

\* C10: after construction both windows hold the default capacity and credit
\* and sendsBlocked_ and error_ are false, except that a recvCapacity above
\* the default makes the receive capacity recvCapacity, raises the receive
\* credit by recvCapacity - default and emits exactly one window-update for
\* recvCapacity - default on stream 0; at or below the default nothing is
\* emitted.
C10_Construction ==
  last.op = "FlowControlFilter"
    => /\ sendWindow_ = Window(kInitialWindow)
       /\ ~sendsBlocked_ /\ ~error_
       /\ IF last.n > kInitialWindow
            THEN /\ recvWindow_.capacity = last.n
                 /\ recvWindow_.available = kInitialWindow + (last.n - kInitialWindow)
                 /\ out = <<CodecWindowUpdate(0, last.n - kInitialWindow, 0)>>
            ELSE /\ recvWindow_ = Window(kInitialWindow)
                 /\ out = <<>>

C10_Witness ==
  /\ last.op = "FlowControlFilter"
  /\ last.n > kInitialWindow
  /\ recvWindow_.capacity = last.n
  /\ Len(out) = 1
  /\ out[1].ch = "codec.generateWindowUpdate"

\* the window-update frames on stream 0 in the call sequence o
ConnUpdates(o) ==
  {i \in 1..Len(o) : o[i].ch = "codec.generateWindowUpdate" /\ o[i].stream = 0}

\* C11 (as stated): ingressBytesProcessed(delta) adds delta to toAck_; if the
\* result is positive and above half the receive capacity it frees exactly
\* that credit into recvWindow_, emits exactly one window-update for it on
\* stream 0, resets toAck_ and returns true; otherwise it emits nothing,
\* leaves recvWindow_ alone, keeps the total in toAck_ and returns false.
C11_IngressBytesProcessed ==
  [][last'.op = "ingressBytesProcessed"
       => LET acc == ToInt32(toAck_ + last'.n)
          IN IF acc > 0 /\ acc > recvWindow_.capacity \div 2
               THEN /\ recvWindow_' = [recvWindow_ EXCEPT !.available = @ + acc]
                    /\ out' = <<CodecWindowUpdate(0, acc, 0)>>
                    /\ toAck_' = 0
                    /\ ret' = RetBool(TRUE)
               ELSE /\ recvWindow_' = recvWindow_
                    /\ out' = <<>>
                    /\ toAck_' = acc
                    /\ ret' = RetBool(FALSE)]_vars

\* C11 (amended): as above when the free of the accumulated credit succeeds;
\* when the window cannot take the credit the call aborts, emitting nothing
\* and leaving recvWindow_ alone.
C11_IngressBytesProcessedOrAbort ==
  [][last'.op = "ingressBytesProcessed"
       => LET acc == ToInt32(toAck_ + last'.n)
          IN IF acc > 0 /\ acc > recvWindow_.capacity \div 2
               THEN IF recvWindow_.available + acc <= MaxInt32
                      THEN /\ recvWindow_' = [recvWindow_ EXCEPT !.available = @ + acc]
                           /\ out' = <<CodecWindowUpdate(0, acc, 0)>>
                           /\ toAck_' = 0
                           /\ ret' = RetBool(TRUE)
                           /\ ~aborted'
                      ELSE /\ aborted'
                           /\ recvWindow_' = recvWindow_
                           /\ out' = <<>>
                           /\ ret' = RetNone
               ELSE /\ recvWindow_' = recvWindow_
                    /\ out' = <<>>
                    /\ toAck_' = acc
                    /\ ret' = RetBool(FALSE)
                    /\ ~aborted']_vars

C11_Witness ==
  /\ last.op = "ingressBytesProcessed"
  /\ ret = RetBool(TRUE)
  /\ toAck_ = 0
  /\ Len(out) = 1
  /\ out[1].ch = "codec.generateWindowUpdate"
  /\ out[1].n > last.n
  /\ last.n > 0

\* C12: setReceiveWindowSize with a capacity below the default, or below the
\* receive window's current capacity, changes neither the receive window,
\* toAck_, sendsBlocked_ nor error_, emits no frame and raises no error.
C12_ResizeRefused ==
  [][(last'.op = "setReceiveWindowSize"
        /\ (last'.n < kInitialWindow \/ last'.n < recvWindow_.capacity))
       => /\ UNCHANGED <<recvWindow_, toAck_, sendsBlocked_, error_, aborted>>
          /\ out' = <<>>]_vars

C12_Witness ==
  /\ last.op = "setReceiveWindowSize"
  /\ last.n >= kInitialWindow
  /\ last.n < recvWindow_.capacity
  /\ toAck_ > 0
  /\ out = <<>>

C14_AvailableWithinCapacity ==
  /\ recvWindow_.available <= recvWindow_.capacity
  /\ sendWindow_.available <= sendWindow_.capacity

\* C14 (amended): every operation that does not free credit keeps a window
\* whose available credit is within its capacity within it; only a free (an
\* ingressBytesProcessed on the receive window, an onWindowUpdate on stream 0
\* on the send window) can raise the credit above the capacity.
C14_OnlyFreeExceedsCapacity ==
  [][/\ (recvWindow_.available <= recvWindow_.capacity
           /\ last'.op # "ingressBytesProcessed")
          => recvWindow_'.available <= recvWindow_'.capacity
     /\ (sendWindow_.available <= sendWindow_.capacity
           /\ ~(last'.op = "onWindowUpdate" /\ last'.stream = 0))
          => sendWindow_'.available <= sendWindow_'.capacity]_vars

C14_Witness ==
  /\ last.op = "setReceiveWindowSize"
  /\ Len(out) = 1
  /\ recvWindow_.capacity > kInitialWindow
  /\ recvWindow_.available = recvWindow_.capacity
  /\ sendWindow_.available < sendWindow_.capacity

\* C15: once error_ is set, no onBody delivers data to the data-delivery
\* callback, even when the data fits the receive window.
C15_ErroredStopsForwarding ==
  [][(error_ /\ last'.op = "onBody") => Count(out', "callback.onBody") = 0]_vars

\* C16: between operations toAck_ is non-negative and at most half (integer
\* division) of the receive window's capacity.
C16_PendingAckBounded ==
  ~aborted => /\ toAck_ >= 0
              /\ toAck_ <= recvWindow_.capacity \div 2

\* the consumed-byte credit a step returns to the receive window: the rise of
\* the available credit beyond the rise of the capacity
CreditFreed ==
  IF last'.op \in {"ingressBytesProcessed", "setReceiveWindowSize"}
    THEN (recvWindow_'.available - recvWindow_.available)
           - (recvWindow_'.capacity - recvWindow_.capacity)
    ELSE 0

\* the bytes a step reports as consumed
BytesReported == IF last'.op = "ingressBytesProcessed" THEN last'.n ELSE 0

\* C17: no consumed-byte credit is lost: in every step toAck_ plus the credit
\* freed into recvWindow_ equals the previous toAck_ plus the bytes reported
\* in that step (sum as the 32-bit counter takes it); in particular
\* setReceiveWindowSize keeps what toAck_ has accumulated.
C17_NoCreditLost ==
  [][toAck_' + CreditFreed = ToInt32(toAck_ + BytesReported)]_vars

\* amount of the window-updates a step emits on stream 0
UpdatesEmitted(o) ==
  IF ConnUpdates(o) = {} THEN 0 ELSE o[CHOOSE i \in ConnUpdates(o) : TRUE].n

\* length of the body a step delivers to the data-delivery callback
BodyAccepted(o) ==
  LET b == {i \in 1..Len(o) : o[i].ch = "callback.onBody"}
  IN IF b = {} THEN 0 ELSE o[CHOOSE i \in b : TRUE].n

\* C18: the peer's view of the receive window follows the filter's: in every
\* step the receive window's available credit changes by exactly the
\* window-update amounts emitted on stream 0 minus the length of the body
\* accepted in that step.
C18_PeerViewMatches ==
  [][/\ Cardinality(ConnUpdates(out')) <= 1
     /\ recvWindow_'.available - recvWindow_.available
          = UpdatesEmitted(out') - BodyAccepted(out')]_vars

\* C19: sendsBlocked_ is set exactly when the send window has no available
\* credit.
C19_BlockedIffZero ==
  sendsBlocked_ <=> Window_getNonNegativeSize(sendWindow_) = 0

C19_Witness ==
  /\ last.op = "generateBody"
  /\ last.n > 0
  /\ ~aborted
  /\ sendsBlocked_
  /\ sendWindow_.available = 0

\* C20: every window-update the filter emits on stream 0 carries a strictly
\* positive amount.
C20_UpdatesPositive ==
  \A i \in ConnUpdates(out) : out[i].n > 0
====
